---------------------------- MODULE Spec2Model ----------------------------
(***************************************************************************)
(* A model of the SQL importer of "DB Migration using sql file/dump.py":   *)
(* the statement tokenizer _sql_statement_stream (a generator over the     *)
(* lines of a text stream) and the replay driver migrate_sql_to_mysql.     *)
(*                                                                         *)
(* Text is modelled character by character.  A character of the input is   *)
(* a record [c, ln, col]: the character itself and, as a history tag, the  *)
(* line and column of the dump it was read from.  The code never looks at  *)
(* the tag; every comparison the code makes is made on Txt(s), the plain   *)
(* characters.  The tag lets a property say where an emitted character     *)
(* came from.                                                              *)
(***************************************************************************)
EXTENDS Integers, Sequences, FiniteSets, TLC

VARIABLES
    \* ---- the text stream and the generator _sql_statement_stream
    lines,             \* the lines of the stream, each keeping its "\n"
    pos,               \* number of lines the generator has read
    current_delim,     \* dump.py:57
    buf,               \* dump.py:58, a list of (comment-stripped) lines
    in_block_comment,  \* dump.py:59
    out,               \* the statements yielded so far, in order
    gen,               \* "running" | "done" (StopIteration) | "error"
    ibcAt,             \* history: in_block_comment when line i was read
    plan,              \* history: the statements an input was built from
    \* ---- migrate_sql_to_mysql
    pc,                \* position in the function
    source,            \* dump.py:133, the argument naming the dump
    isfile,            \* what os.path.isfile(source) answers (dump.py:36)
    origin,            \* what kind of source the argument `source` names
    stop_on_error,     \* dump.py:140
    commit_every,      \* dump.py:139
    conn,              \* "none" | "open" | "closed"
    stream,            \* "none" | "open" | "closed"
    stream_closes,     \* how many times stream.close() ran
    applied,           \* dump.py:179
    failed,            \* dump.py:180
    batch,             \* dump.py:182
    db,                \* history: what the destination was asked to do
    err,               \* the exception in flight, "none" if none
    reported           \* how many times the summary (dump.py:223) printed

tokVars == <<lines, pos, current_delim, buf, in_block_comment, out, gen,
             ibcAt, plan>>
drvVars == <<pc, source, isfile, origin, stop_on_error, commit_every,
             conn, stream,
             stream_closes, applied, failed, batch, db, err, reported>>
vars == <<lines, pos, current_delim, buf, in_block_comment, out, gen,
          ibcAt, plan, pc, source, isfile, origin, stop_on_error,
          commit_every, conn,
          stream, stream_closes, applied, failed, batch, db, err, reported>>

-----------------------------------------------------------------------------
(* Bounds of the model.                                                    *)

\* Longest stream drawn line by line from Vocab.
MaxLines == 3
\* Longest input built from statements and DELIMITER directives.
MaxUnits == 3
\* Longest stream the driver replays.
MaxDriverLines == 4
\* Largest commit_every the driver is run with.
MaxCommitEvery == 2

-----------------------------------------------------------------------------
(* Python's str operations, on sequences of characters.                    *)

Min(S) == CHOOSE x \in S : \A y \in S : x <= y

\* str.isspace for the characters str.strip() removes
IsSpace(c) == c \in {" ", "\t", "\n", "\r"}

\* the plain characters of a tagged text
Txt(s) == [i \in 1..Len(s) |-> s[i].c]

\* the tagged text of line number ln
Tag(t, ln) == [i \in 1..Len(t) |-> [c |-> t[i], ln |-> ln, col |-> i]]

\* t[i:i+len(sub)] == sub, i counted from 0 as in Python
MatchAt(t, sub, i) ==
    /\ i >= 0
    /\ i + Len(sub) <= Len(t)
    /\ \A k \in 1..Len(sub) : t[i + k] = sub[k]

\* t.find(sub, start): the lowest index >= start where sub occurs, else -1
Find(t, sub, start) ==
    LET hits == {i \in start..(Len(t) - Len(sub)) : MatchAt(t, sub, i)}
    IN  IF hits = {} THEN -1 ELSE Min(hits)

\* s[a:b] for 0 <= a
Slice(s, a, b) == SubSeq(s, a + 1, b)

\* t.startswith(prefix), t.endswith(suffix)
StartsWith(t, prefix) == MatchAt(t, prefix, 0)
EndsWith(t, suffix) == MatchAt(t, suffix, Len(t) - Len(suffix))

\* s.rstrip(), s.lstrip(), s.strip() on a tagged text
RStrip(s) ==
    LET keep == {i \in 1..Len(s) : ~IsSpace(s[i].c)}
    IN  IF keep = {} THEN <<>>
        ELSE SubSeq(s, 1, CHOOSE i \in keep : \A j \in keep : j <= i)

LStrip(s) ==
    LET keep == {i \in 1..Len(s) : ~IsSpace(s[i].c)}
    IN  IF keep = {} THEN <<>> ELSE SubSeq(s, Min(keep), Len(s))

Strip(s) == LStrip(RStrip(s))

\* c.upper() for the letters the model's inputs use in lower case
UpperChar(c) ==
    CASE c = "d" -> "D" [] c = "e" -> "E" [] c = "l" -> "L"
      [] c = "i" -> "I" [] c = "m" -> "M" [] c = "t" -> "T"
      [] c = "r" -> "R" [] c = "c" -> "C" [] c = "o" -> "O"
      [] c = "n" -> "N" [] c = "p" -> "P" [] c = "x" -> "X"
      [] c = "y" -> "Y" [] OTHER -> c

Upper(t) == [i \in 1..Len(t) |-> UpperChar(t[i])]

\* "".join(buf)
RECURSIVE Join(_)
Join(b) == IF b = <<>> THEN <<>> ELSE Head(b) \o Join(Tail(b))

-----------------------------------------------------------------------------
(* _sql_statement_stream, dump.py:49-129.                                  *)

SlashStar == <<"/", "*">>
StarSlash == <<"*", "/">>
Semicolon == <<";">>

\* dump.py:60
delim_token == <<"D", "E", "L", "I", "M", "I", "T", "E", "R", " ">>

\* dump.py:75-84: strip the block comments that start and end on the line;
\* an unterminated one cuts the line at its "/*" and opens block-comment
\* state.
RECURSIVE StripInline(_)
StripInline(line) ==
    LET start == Find(Txt(line), SlashStar, 0)
        end == Find(Txt(line), StarSlash, start + 2)
    IN  IF start = -1
        THEN [line |-> line, in_block_comment |-> FALSE]
        ELSE IF end = -1
        THEN [line |-> Slice(line, 0, start), in_block_comment |-> TRUE]
        ELSE StripInline(Slice(line, 0, start) \o Slice(line, end + 2, Len(line)))

\* a variant of IsDelimiterCommand that forgets upper(): only the upper
\* case spelling is taken for the command
IsDelimiterCommandCaseSensitive(check) == StartsWith(Txt(check), delim_token)

\* variant of dump.py:97: the word alone, without the space, makes the
\* command
IsDelimiterCommandBareWord(check) ==
    StartsWith(Upper(Txt(check)), SubSeq(delim_token, 1, Len(delim_token) - 1))

\* dump.py:97
IsDelimiterCommand(check) == StartsWith(Upper(Txt(check)), delim_token)

\* dump.py:105
NewDelimiter(check) == Txt(Strip(Slice(check, Len(delim_token), Len(check))))

\* variant of dump.py:110: a marker anywhere in the line makes it a comment
IsLineCommentAnywhere(check) ==
    Find(Txt(check), <<"-", "-">>, 0) # -1 \/ Find(Txt(check), <<"#">>, 0) # -1

\* dump.py:110
IsLineComment(check) ==
    StartsWith(Txt(check), <<"-", "-">>) \/ StartsWith(Txt(check), <<"#">>)

\* a variant of DelimiterMatches with the delimiter hard-coded as ";"
DelimiterMatchesSemicolon(test, delim) == EndsWith(Txt(test), Semicolon)

\* variant of dump.py:120: the delimiter is looked for anywhere in the
\* buffer
DelimiterMatchesAnywhere(test, delim) ==
    delim # <<>> /\ Find(Txt(test), delim, 0) # -1

\* dump.py:120
DelimiterMatches(test, delim) == delim # <<>> /\ EndsWith(Txt(test), delim)

\* variant of dump.py:121: the statement is cut, not trimmed
StatementOfUntrimmed(test, delim) == Slice(test, 0, Len(test) - Len(delim))

\* dump.py:121
StatementOf(test, delim) == Strip(Slice(test, 0, Len(test) - Len(delim)))

\* What one pass of the loop body (dump.py:62-124) leaves for a given line.
Skip(delim, b, ibc) ==
    [current_delim |-> delim, buf |-> b, in_block_comment |-> ibc,
     yielded |-> <<>>]

\* variant of dump.py:99-107: the buffer is cleared and nothing is yielded
DelimiterCommandDrops(check, b) ==
    [current_delim |-> NewDelimiter(check), buf |-> <<>>,
     in_block_comment |-> FALSE, yielded |-> <<>>]

\* variant of dump.py:99-107: the partial statement is yielded, and the
\* buffer is not cleared
DelimiterCommandKeeps(check, b) ==
    LET partial == Strip(Join(b))
    IN  [current_delim |-> NewDelimiter(check), buf |-> b,
         in_block_comment |-> FALSE,
         yielded |-> IF b # <<>> /\ partial # <<>> THEN <<partial>> ELSE <<>>]

\* dump.py:99-107: the DELIMITER command
DelimiterCommand(check, b) ==
    LET partial == Strip(Join(b))
    IN  [current_delim |-> NewDelimiter(check), buf |-> <<>>,
         in_block_comment |-> FALSE,
         yielded |-> IF b # <<>> /\ partial # <<>> THEN <<partial>> ELSE <<>>]

\* dump.py:113-124: accumulate, then emit on a delimiter match
Accumulate(line, delim, b) ==
    LET buf2 == Append(b, line)
        joined == Join(buf2)
        test == RStrip(joined)
        stmt == StatementOf(test, delim)
    IN  IF DelimiterMatches(test, delim)
        THEN [current_delim |-> delim, buf |-> <<>>,
              in_block_comment |-> FALSE,
              yielded |-> IF stmt # <<>> THEN <<stmt>> ELSE <<>>]
        ELSE [current_delim |-> delim, buf |-> buf2,
              in_block_comment |-> FALSE, yielded |-> <<>>]

\* variant of dump.py:89-124 without the test of dump.py:93: a blank line
\* is accumulated like any other
ClassifyKeepsBlank(line, delim, b) ==
    LET check == Strip(line)
    IN  IF IsDelimiterCommand(check) THEN DelimiterCommand(check, b)
        ELSE IF IsLineComment(check) THEN Skip(delim, b, FALSE)
        ELSE Accumulate(line, delim, b)

\* dump.py:89-124: the line once its block comments are gone
Classify(line, delim, b) ==
    LET check == Strip(line)
    IN  IF check = <<>> THEN Skip(delim, b, FALSE)
        ELSE IF IsDelimiterCommand(check) THEN DelimiterCommand(check, b)
        ELSE IF IsLineComment(check) THEN Skip(delim, b, FALSE)
        ELSE Accumulate(line, delim, b)

\* variant of dump.py:66-72: a line read inside a block comment is dropped
\* whole, and closes the comment when it holds "*/"
LineStepDropsClosing(raw_line, delim, b, ibc) ==
    LET end_idx == Find(Txt(raw_line), StarSlash, 0)
        stripped == StripInline(raw_line)
    IN  IF ibc THEN Skip(delim, b, end_idx < 0)
        ELSE IF stripped.in_block_comment THEN Skip(delim, b, TRUE)
        ELSE Classify(stripped.line, delim, b)

\* variant of dump.py:78-87: what stands before an unterminated "/*" goes
\* on to the checks of dump.py:89-124
LineStepKeepsPrefix(raw_line, delim, b, ibc) ==
    LET end_idx == Find(Txt(raw_line), StarSlash, 0)
        line == IF ibc THEN Slice(raw_line, end_idx + 2, Len(raw_line))
                ELSE raw_line
        stripped == StripInline(line)
        r == Classify(stripped.line, delim, b)
    IN  IF ibc /\ end_idx < 0 THEN Skip(delim, b, TRUE)
        ELSE [r EXCEPT !.in_block_comment = stripped.in_block_comment]

\* dump.py:63-124: one iteration of `for raw_line in text_stream`
LineStep(raw_line, delim, b, ibc) ==
    LET end_idx == Find(Txt(raw_line), StarSlash, 0)
        line == IF ibc THEN Slice(raw_line, end_idx + 2, Len(raw_line))
                ELSE raw_line
        stripped == StripInline(line)
    IN  IF ibc /\ end_idx < 0 THEN Skip(delim, b, TRUE)
        ELSE IF stripped.in_block_comment THEN Skip(delim, b, TRUE)
        ELSE Classify(stripped.line, delim, b)

\* variant of dump.py:127-129: the pending buffer is dropped at the end
TailOfDropped(b) == <<>>

\* dump.py:126-129: the flush at the end of the stream
TailOf(b) ==
    LET tail == Strip(Join(b))
    IN  IF tail # <<>> THEN <<tail>> ELSE <<>>

\* list(_sql_statement_stream(stream)): the generator run to its end from
\* line i on, as one function of the stream
RECURSIVE RunFrom(_, _, _, _, _)
RunFrom(ls, i, delim, b, ibc) ==
    LET r == LineStep(ls[i], delim, b, ibc)
    IN  IF i > Len(ls) THEN TailOf(b)
        ELSE r.yielded
               \o RunFrom(ls, i + 1, r.current_delim, r.buf, r.in_block_comment)

Tokenize(ls) == RunFrom(ls, 1, Semicolon, <<>>, FALSE)

-----------------------------------------------------------------------------
(* The inputs the model runs on.                                           *)

\* Iterating a text stream (dump.py:62): the text cut after every "\n".
RECURSIVE SplitLines(_)
SplitLines(t) ==
    LET nl == Find(t, <<"\n">>, 0)
    IN  IF t = <<>> THEN <<>>
        ELSE IF nl = -1 THEN <<t>>
        ELSE <<Slice(t, 0, nl + 1)>> \o SplitLines(Slice(t, nl + 1, Len(t)))

\* The stream of a text: its lines, every character tagged with its place.
StreamOf(t) ==
    LET ls == SplitLines(t) IN [i \in 1..Len(ls) |-> Tag(ls[i], i)]

\* "\n".join(texts)
RECURSIVE JoinLines(_)
JoinLines(texts) ==
    IF texts = <<>> THEN <<>>
    ELSE IF Len(texts) = 1 THEN Head(texts)
    ELSE Head(texts) \o <<"\n">> \o JoinLines(Tail(texts))

\* Lines a stream is drawn from, one by one.
Vocab ==
    { <<"A", ";">>,
      <<"B">>,
      <<"D", "E", "L", "I", "M", "I", "T", "E", "R", " ", "$", "$">>,
      <<"C", ";", " ", "D", "$", "$">>,
      <<"-", "-", " ", "x", ";">>,
      <<"#", " ", "y", " ", "*", "/", " ", "E", ";">>,
      <<"F", " ", "/", "*", " ", "c", " ", "*", "/", " ", "G", ";">>,
      <<"H", " ", "/", "*", " ", "c">>,
      <<"c", " ", "*", "/", " ", "I", ";">>,
      <<" ", " ">>,
      <<"d", "e", "l", "i", "m", "i", "t", "e", "r", " ", ";">>,
      <<"J", ";", " ", "-", "-", " ", "n">>,
      <<"/", "/", "*", "*", "/", "*", "*", "/", "*", "Y", "*", "/", "Z", ";">> }

SeqsUpTo(S, n) == UNION {[1..k -> S] : k \in 0..n}

RawTexts == {JoinLines(ls) : ls \in SeqsUpTo(Vocab, MaxLines)}

\* An input built from statements: each unit is a statement followed by
\* the delimiter active at that point and the end of the line, or a
\* DELIMITER directive on a line of its own.
Bodies ==
    { <<"A">>, <<"B">>, <<"S", ";", "\n", "E">>,
      <<"K", " ", "/", "*", "\n", "*", "/">> }
Delims == { <<";">>, <<"$", "$">> }
Units == [kind : {"stmt", "delim"}, body : Bodies \cup Delims]

\* the delimiter active at unit i of plan p
RECURSIVE ActiveDelim(_, _)
ActiveDelim(p, i) ==
    IF i <= 1 THEN Semicolon
    ELSE IF p[i - 1].kind = "delim" THEN p[i - 1].body
    ELSE ActiveDelim(p, i - 1)

\* a directive names a delimiter, and every statement is free of the
\* delimiter that ends it
WellFormed(p) ==
    \A i \in 1..Len(p) :
        /\ p[i].kind = "delim" => p[i].body \in Delims
        /\ p[i].kind = "stmt" =>
              /\ p[i].body \in Bodies
              /\ Find(p[i].body, ActiveDelim(p, i), 0) = -1

Plans == {p \in SeqsUpTo(Units, MaxUnits) : p # <<>> /\ WellFormed(p)}

\* the text of unit i
Piece(p, i) ==
    IF p[i].kind = "stmt"
    THEN p[i].body \o ActiveDelim(p, i) \o <<"\n">>
    ELSE delim_token \o p[i].body \o <<"\n">>

RECURSIVE RenderFrom(_, _)
RenderFrom(p, i) ==
    IF i > Len(p) THEN <<>> ELSE Piece(p, i) \o RenderFrom(p, i + 1)

Render(p) == RenderFrom(p, 1)

\* the units of plan p that are statements, in order
StatementUnits(p) ==
    LET idx == {i \in 1..Len(p) : p[i].kind = "stmt"}
        nth[k \in 0..Cardinality(idx)] ==
            IF k = 0 THEN 0
            ELSE Min({i \in idx : i > nth[k - 1]})
    IN  [k \in 1..Cardinality(idx) |-> nth[k]]

\* the statements of a plan, in order
Statements(p) ==
    [k \in 1..Len(StatementUnits(p)) |-> p[StatementUnits(p)[k]].body]

\* the lines of the rendered text that unit i of plan p takes
NewLines(t) == Cardinality({j \in 1..Len(t) : t[j] = "\n"})

RECURSIVE LinesBefore(_, _)
LinesBefore(p, i) ==
    IF i <= 1 THEN 0
    ELSE LinesBefore(p, i - 1) + NewLines(Piece(p, i - 1))

LinesOf(p, i) ==
    (LinesBefore(p, i) + 1)..(LinesBefore(p, i) + NewLines(Piece(p, i)))

\* the example of the delimiter switch
P3Text ==
    <<"A", ";", "\n",
      "D", "E", "L", "I", "M", "I", "T", "E", "R", " ", "$", "$", "\n",
      "B", "$", "$", "\n",
      "D", "E", "L", "I", "M", "I", "T", "E", "R", " ", ";", "\n",
      "C", ";">>

\* the scenario dump
ScenarioText ==
    <<"I", "N", "S", "E", "R", "T", " ", "I", "N", "T", "O", " ", "t", " ",
      "V", "A", "L", "U", "E", "S", " ", "(", "1", ")", ";", "\n",
      "-", "-", " ", "c", "o", "m", "m", "e", "n", "t", "\n",
      "D", "E", "L", "I", "M", "I", "T", "E", "R", " ", "$", "$", "\n",
      "C", "R", "E", "A", "T", "E", " ", "P", "R", "O", "C", "E", "D", "U",
      "R", "E", " ", "p", "(", ")", " ", "B", "E", "G", "I", "N", " ",
      "S", "E", "L", "E", "C", "T", " ", "1", ";", " ", "E", "N", "D",
      "$", "$", "\n",
      "D", "E", "L", "I", "M", "I", "T", "E", "R", " ", ";", "\n",
      "I", "N", "S", "E", "R", "T", " ", "I", "N", "T", "O", " ", "t", " ",
      "V", "A", "L", "U", "E", "S", " ", "(", "2", ")", ";">>

\* a line that holds the delimiter alone, then a statement
EmptyStatementText == <<";", "\n", "A", ";">>

\* two line comments, the first holding "/*" and the second "*/"
LineCommentText ==
    <<"-", "-", " ", "x", " ", "/", "*", " ", "y", "\n",
      "#", " ", "z", " ", "*", "/", " ", "w">>

\* comments and blank lines only, the last block comment never closed
CommentText ==
    <<"/", "*", " ", "a", "\n", "b", " ", "*", "/", "\n",
      "-", "-", " ", "c", "\n", " ", " ", "\n", "#", " ", "d", "\n",
      "/", "*", " ", "e", "\n">>

\* a directive with a comment between the word and the delimiter
DirectiveCommentText ==
    <<"B", "\n",
      "D", "E", "L", "I", "M", "I", "T", "E", "R", " ", "/", "*", " ", "c",
      " ", "*", "/", " ", "$", "$", "\n",
      "C", "$", "$">>

\* two statements on one line, then a statement ending in two delimiters
TwoOnOneLineText ==
    <<"A", ";", " ", "B", ";", "\n", "C", ";", ";">>

\* a directive followed, on its line, by the opening of a block comment
OpenerDirectiveText ==
    <<"D", "E", "L", "I", "M", "I", "T", "E", "R", " ", "$", "$", " ", "/",
      "*", " ", "x", "\n",
      "*", "/", " ", "A", ";">>

\* the word DELIMITER with nothing after it but a space
BareWordText ==
    <<"D", "E", "L", "I", "M", "I", "T", "E", "R", " ", "\n", "A", ";">>

FixedTexts ==
    {P3Text, ScenarioText, EmptyStatementText, LineCommentText, CommentText,
     DirectiveCommentText, TwoOnOneLineText, OpenerDirectiveText,
     BareWordText}

-----------------------------------------------------------------------------
(* The generator as a state machine: one step per line read.               *)

GenInit(text, p) ==
    /\ lines = StreamOf(text)
    /\ pos = 0
    /\ current_delim = Semicolon
    /\ buf = <<>>
    /\ in_block_comment = FALSE
    /\ out = <<>>
    /\ gen = "running"
    /\ ibcAt = <<>>
    /\ plan = p

\* dump.py:62-124, one iteration of the loop
ReadLine ==
    LET r == LineStep(lines[pos + 1], current_delim, buf, in_block_comment)
    IN  /\ pos' = pos + 1
        /\ current_delim' = r.current_delim
        /\ buf' = r.buf
        /\ in_block_comment' = r.in_block_comment
        /\ out' = out \o r.yielded
        /\ ibcAt' = Append(ibcAt, in_block_comment)
        /\ UNCHANGED <<lines, plan>>

\* dump.py:126-129, the stream is exhausted; the generator is left
\* suspended at its last yield ("tail") or returns ("done")
EndOfStream ==
    /\ out' = out \o TailOf(buf)
    /\ gen' = IF TailOf(buf) # <<>> THEN "tail" ELSE "done"
    /\ UNCHANGED <<lines, pos, current_delim, buf, in_block_comment,
                   ibcAt, plan>>

\* resumed after its last yield, the generator returns
Return ==
    /\ gen' = "done"
    /\ UNCHANGED <<lines, pos, current_delim, buf, in_block_comment, out,
                   ibcAt, plan>>

-----------------------------------------------------------------------------
(* The tokenizer alone, its statements collected as list() would.          *)

DriverIdle ==
    /\ pc = "collect"
    /\ source = <<>>
    /\ isfile = FALSE
    /\ origin = "inline"
    /\ stop_on_error = FALSE
    /\ commit_every = 1
    /\ conn = "none"
    /\ stream = "open"
    /\ stream_closes = 0
    /\ applied = 0
    /\ failed = 0
    /\ batch = 0
    /\ db = <<>>
    /\ err = "none"
    /\ reported = 0

InitTok ==
    /\ \/ \E t \in RawTexts \cup FixedTexts : GenInit(t, <<>>)
       \/ \E p \in Plans : GenInit(Render(p), p)
    /\ DriverIdle

CollectLine ==
    /\ pc = "collect" /\ gen = "running" /\ pos < Len(lines)
    /\ ReadLine
    /\ UNCHANGED gen
    /\ UNCHANGED drvVars

CollectEnd ==
    /\ pc = "collect" /\ gen = "running" /\ pos = Len(lines)
    /\ EndOfStream
    /\ UNCHANGED drvVars

CollectReturn ==
    /\ pc = "collect" /\ gen = "tail"
    /\ Return
    /\ UNCHANGED drvVars

NextTok == CollectLine \/ CollectEnd \/ CollectReturn

SpecTok == InitTok /\ [][NextTok]_vars

\* the statements collected, as plain text
Collected == [i \in 1..Len(out) |-> Txt(out[i])]

-----------------------------------------------------------------------------
(* migrate_sql_to_mysql, dump.py:132-223.                                  *)

\* What `source` names (dump.py:24, 30, 36, 38, 46).
Origins == {"url", "url_gz", "file", "file_gz", "inline"}

\* c.lower() for the letters the model's sources use in upper case
LowerChar(c) ==
    CASE c = "H" -> "h" [] c = "T" -> "t" [] c = "P" -> "p"
      [] c = "S" -> "s" [] c = "G" -> "g" [] c = "Z" -> "z"
      [] c = "A" -> "a" [] c = "B" -> "b" [] OTHER -> c

\* source.lower()
Lower(t) == [i \in 1..Len(t) |-> LowerChar(t[i])]

HttpPrefix == <<"h", "t", "t", "p", ":", "/", "/">>
HttpsPrefix == <<"h", "t", "t", "p", "s", ":", "/", "/">>
GzSuffix == <<".", "g", "z">>

\* variant of dump.py:24 without lower(): the scheme is matched as written
IsUrlAsWritten(src) ==
    StartsWith(src, HttpPrefix) \/ StartsWith(src, HttpsPrefix)

\* dump.py:24
IsUrl(src) ==
    StartsWith(Lower(src), HttpPrefix) \/ StartsWith(Lower(src), HttpsPrefix)

\* dump.py:30 and 38
IsGz(src) == EndsWith(src, GzSuffix)

\* dump.py:24-46: which branch of _open_sql_source takes the source, given
\* what os.path.isfile answers for it
Resolve(src, isf) ==
    IF IsUrl(src) THEN (IF IsGz(src) THEN "url_gz" ELSE "url")
    ELSE IF isf THEN (IF IsGz(src) THEN "file_gz" ELSE "file")
    ELSE "inline"

\* dump.py:26-32, 40-42: the fetch, the decompression of the response or
\* the opening of the file can raise; wrapping a string (dump.py:46) cannot
CanFailOpen(o) == o \in {"url", "url_gz", "file", "file_gz"}

\* dump.py:31-34, 39-46: a TextIOWrapper decodes (and gzip.open inflates)
\* as lines are asked for, so reading a line can raise; a StringIO holds
\* text that is already decoded
CanFailRead(o) == o \in {"url_gz", "file", "file_gz"}

\* variants of the test at dump.py:195: every failure is raised again, none is
ReraisesAlways(stop) == TRUE
ReraisesNever(stop) == FALSE

\* dump.py:195
Reraises(stop) == stop

\* variant of the test at dump.py:200: the batch must exceed commit_every
ShouldCommitAfter(b, every) == b > every

\* dump.py:200
ShouldCommit(b, every) == b >= every

\* variant of dump.py:205: no final commit is ever due
NeedsFinalCommitNever(b) == FALSE

\* dump.py:205
NeedsFinalCommit(b) == b > 0

\* variant of dump.py:198-206: a failed commit is raised only when
\* stop_on_error is set, as if it stood inside the try of dump.py:186-196
CommitRaisesOnStop(stop) == stop

\* dump.py:198-206: the commits stand outside the try of dump.py:186-196,
\* so a failed one is raised whatever stop_on_error is
CommitRaises(stop) == TRUE

\* dump.py:188-189 and 191: the counters after one execute
Counted(ok) ==
    [applied |-> IF ok THEN applied + 1 ELSE applied,
     batch |-> IF ok THEN batch + 1 ELSE batch,
     failed |-> IF ok THEN failed ELSE failed + 1]

\* one request to the destination, as the history keeps it; `at` is the
\* statement number printed with it, 0 when nothing was printed
Ev(op, stmt, ok) == [op |-> op, stmt |-> stmt, ok |-> ok, at |-> 0]

\* variant of dump.py:193: the number printed is the count of failures
ErrorIndexOfFailures(a, f) == f

\* dump.py:193: the statement number the error message prints, from the
\* counters as dump.py:191 left them
ErrorIndex(a, f) == a + f

\* dump.py:187-194: the execution of one statement, n being the counters
\* after it; a rejected one is reported with its number
ExecEv(stmt, ok, n) ==
    [Ev("exec", stmt, ok) EXCEPT
        !.at = IF ok THEN 0 ELSE ErrorIndex(n.applied, n.failed)]

\* Streams the driver replays.
DriverVocab == { <<"A", ";">>, <<"B">> }
DriverTexts == {JoinLines(ls) : ls \in SeqsUpTo(DriverVocab, MaxDriverLines)}

\* The sources the driver is given for a dump whose text is t: a URL, a
\* URL of a gzip file, a local file, a local gzip file (t being what they
\* hold), and t itself as inline SQL.
DriverSources(t) ==
    { [source |-> HttpPrefix \o <<"h", "/", "d">>, isfile |-> FALSE],
      [source |-> HttpsPrefix \o <<"h", "/", "d">> \o GzSuffix,
       isfile |-> FALSE],
      [source |-> <<"d">>, isfile |-> TRUE],
      [source |-> <<"d">> \o GzSuffix, isfile |-> TRUE],
      [source |-> t, isfile |-> FALSE] }

Init ==
    /\ \E t \in DriverTexts :
          /\ GenInit(t, <<>>)
          /\ \E a \in DriverSources(t) :
                source = a.source /\ isfile = a.isfile
    /\ pc = "connect"
    /\ origin = "unresolved"
    /\ stop_on_error \in BOOLEAN
    /\ commit_every \in 0..MaxCommitEvery
    /\ conn = "none"
    /\ stream = "none"
    /\ stream_closes = 0
    /\ applied = 0
    /\ failed = 0
    /\ batch = 0
    /\ db = <<>>
    /\ err = "none"
    /\ reported = 0

\* dump.py:151-166
Connect ==
    /\ pc = "connect"
    /\ \E ok \in BOOLEAN :
        /\ conn' = IF ok THEN "open" ELSE "none"
        /\ pc' = IF ok THEN "disable_fk" ELSE "raised"
        /\ err' = IF ok THEN "none" ELSE "ConnectionError"
    /\ UNCHANGED <<source, isfile, origin, stop_on_error, commit_every,
                   stream, stream_closes, applied, failed, batch, db,
                   reported>>
    /\ UNCHANGED tokVars

\* variant of dump.py:170-176: the run goes on when the disabling failed
AfterDisableGoesOn(done) == "open_source"

\* dump.py:170-176: the source is opened once the disabling statement and
\* its commit are done; a failure of either leaves the function
AfterDisable(done) == IF done THEN "open_source" ELSE "raised"

\* dump.py:168-171, outside any try: a failure leaves the function at once
DisableFK ==
    /\ pc = "disable_fk"
    /\ \E ok \in BOOLEAN, cok \in BOOLEAN :
        /\ ok \/ cok
        /\ db' = IF ok
                 THEN db \o <<Ev("disable_fk", <<>>, TRUE),
                              Ev("commit_disable", <<>>, cok)>>
                 ELSE Append(db, Ev("disable_fk", <<>>, FALSE))
        /\ pc' = AfterDisable(ok /\ cok)
        /\ err' = IF ok /\ cok THEN "none"
                  ELSE IF ok THEN "CommitError" ELSE "ControlError"
    /\ UNCHANGED <<source, isfile, origin, stop_on_error,
                   commit_every, conn, stream,
                   stream_closes, applied, failed, batch, reported>>
    /\ UNCHANGED tokVars

\* dump.py:176-182, outside any try as well
OpenSource ==
    /\ pc = "open_source"
    /\ origin' = Resolve(source, isfile)
    /\ \E ok \in BOOLEAN :
        /\ ~ok => CanFailOpen(origin')
        /\ stream' = IF ok THEN "open" ELSE "none"
        /\ pc' = IF ok THEN "pull" ELSE "raised"
        /\ err' = IF ok THEN "none" ELSE "SourceError"
        \* dump.py:46: inline, the stream is the source itself
        /\ lines' = IF ok /\ origin' = "inline" THEN StreamOf(source)
                     ELSE lines
    /\ UNCHANGED <<source, isfile, stop_on_error, commit_every, conn,
                   stream_closes, applied, failed, batch, db, reported>>
    /\ UNCHANGED <<pos, current_delim, buf, in_block_comment, out, gen,
                   ibcAt, plan>>

\* dump.py:185, the for statement asks the generator for a statement; the
\* generator reads one more line (dump.py:62-124)
PullLine ==
    /\ pc = "pull" /\ gen = "running" /\ pos < Len(lines)
    /\ ReadLine
    /\ pc' = IF Len(out') > Len(out) THEN "exec" ELSE "pull"
    /\ UNCHANGED gen
    /\ UNCHANGED <<source, isfile, origin, stop_on_error,
                   commit_every, conn, stream,
                   stream_closes, applied, failed, batch, db, err, reported>>

\* dump.py:62, reading the next line raises inside the generator; the
\* exception leaves the for statement and enters the finally clause
PullFail ==
    /\ pc = "pull" /\ gen = "running" /\ CanFailRead(origin)
    /\ gen' = "error"
    /\ pc' = "cleanup"
    /\ err' = "SourceError"
    /\ UNCHANGED <<lines, pos, current_delim, buf, in_block_comment, out,
                   ibcAt, plan>>
    /\ UNCHANGED <<source, isfile, origin, stop_on_error,
                   commit_every, conn, stream,
                   stream_closes, applied, failed, batch, db, reported>>

\* dump.py:126-129, the stream is exhausted
PullEnd ==
    /\ pc = "pull" /\ gen = "running" /\ pos = Len(lines)
    /\ EndOfStream
    /\ pc' = IF TailOf(buf) # <<>> THEN "exec" ELSE "final"
    /\ UNCHANGED <<source, isfile, origin, stop_on_error,
                   commit_every, conn, stream,
                   stream_closes, applied, failed, batch, db, err, reported>>

\* the generator returns: StopIteration ends the for statement
PullReturn ==
    /\ pc = "pull" /\ gen = "tail"
    /\ Return
    /\ pc' = "final"
    /\ UNCHANGED <<source, isfile, origin, stop_on_error,
                   commit_every, conn, stream,
                   stream_closes, applied, failed, batch, db, err, reported>>

\* variant of dump.py:185: the body is handed the first statement again
FirstYieldedStmt == Txt(out[1])

\* dump.py:185, stmt: the statement the generator has just yielded
YieldedStmt == Txt(out[Len(out)])

\* dump.py:186-202, the body of the for statement
ExecStmt ==
    /\ pc = "exec"
    /\ \E ok \in BOOLEAN, cok \in BOOLEAN :
        LET stmt == YieldedStmt
            n == Counted(ok)
            raise == ~ok /\ Reraises(stop_on_error)
            commit == ~raise /\ ShouldCommit(n.batch, commit_every)
            fatal == commit /\ ~cok /\ CommitRaises(stop_on_error)
        IN  /\ ~commit => cok
            /\ applied' = n.applied
            /\ failed' = n.failed
            /\ batch' = IF commit /\ cok THEN 0 ELSE n.batch
            /\ db' = IF commit
                     THEN db \o <<ExecEv(stmt, ok, n),
                                  Ev("commit", <<>>, cok)>>
                     ELSE Append(db, ExecEv(stmt, ok, n))
            /\ pc' = IF raise \/ fatal THEN "cleanup" ELSE "pull"
            /\ err' = IF raise THEN "StatementError"
                      ELSE IF fatal THEN "CommitError" ELSE "none"
    /\ UNCHANGED <<source, isfile, origin, stop_on_error,
                   commit_every, conn, stream,
                   stream_closes, reported>>
    /\ UNCHANGED tokVars

\* dump.py:204-206
FinalCommit ==
    /\ pc = "final"
    /\ \E cok \in BOOLEAN :
        /\ ~NeedsFinalCommit(batch) => cok
        /\ db' = IF NeedsFinalCommit(batch)
                 THEN Append(db, Ev("final_commit", <<>>, cok)) ELSE db
        /\ err' = IF cok \/ ~CommitRaises(stop_on_error) THEN "none"
                  ELSE "CommitError"
    /\ pc' = "cleanup"
    /\ UNCHANGED <<source, isfile, origin, stop_on_error,
                   commit_every, conn, stream,
                   stream_closes, applied, failed, batch, reported>>
    /\ UNCHANGED tokVars

\* variant of dump.py:213-217: a failed re-enabling takes the place of the
\* error in flight
EscalatedCleanup(primary, cleaned) ==
    IF cleaned THEN primary ELSE "CleanupError"

\* dump.py:213-217: the re-enabling statement and its commit run under
\* "except Exception: pass", so the error in flight, if any, stays the
\* same whether they succeed or not
Escalated(primary, cleaned) == primary

\* variant of dump.py:212-214: the pending transaction is rolled back
\* before foreign-key checking is re-enabled
CleanupRequestsRollBack(ok, cok) ==
    IF ok
    THEN <<Ev("rollback", <<>>, TRUE), Ev("enable_fk", <<>>, TRUE),
           Ev("commit_enable", <<>>, cok)>>
    ELSE <<Ev("rollback", <<>>, TRUE), Ev("enable_fk", <<>>, FALSE)>>

\* dump.py:212-214: what the finally clause asks of the destination: the
\* re-enabling statement and, when it was accepted, a commit
CleanupRequests(ok, cok) ==
    IF ok
    THEN <<Ev("enable_fk", <<>>, TRUE), Ev("commit_enable", <<>>, cok)>>
    ELSE <<Ev("enable_fk", <<>>, FALSE)>>

\* dump.py:208-219, the finally clause; an exception in flight goes on to
\* the caller after it
Cleanup ==
    /\ pc = "cleanup"
    /\ \E ok \in BOOLEAN, cok \in BOOLEAN :
        /\ ~ok => cok
        /\ db' = db \o CleanupRequests(ok, cok)
        /\ err' = Escalated(err, ok /\ cok)
    /\ conn' = "closed"
    /\ stream' = "closed"
    /\ stream_closes' = stream_closes + 1
    /\ pc' = IF err' = "none" THEN "report" ELSE "raised"
    /\ UNCHANGED <<source, isfile, origin, stop_on_error,
                   commit_every, applied, failed,
                   batch, reported>>
    /\ UNCHANGED tokVars

\* dump.py:221-223
Report ==
    /\ pc = "report"
    /\ reported' = reported + 1
    /\ pc' = "returned"
    /\ UNCHANGED <<source, isfile, origin, stop_on_error,
                   commit_every, conn, stream,
                   stream_closes, applied, failed, batch, db, err>>
    /\ UNCHANGED tokVars

Next ==
    \/ Connect \/ DisableFK \/ OpenSource
    \/ PullLine \/ PullFail \/ PullEnd \/ PullReturn
    \/ ExecStmt \/ FinalCommit \/ Cleanup \/ Report

Spec == Init /\ [][Next]_vars

\* _open_sql_source alone (dump.py:17-46), over sources of every shape.
Prefixes ==
    { <<>>, HttpPrefix, HttpsPrefix,
      <<"H", "T", "T", "P", ":", "/", "/">>,
      <<"H", "t", "t", "p", "s", ":", "/", "/">>,
      <<"f", "t", "p", ":", "/", "/">>,
      <<" ">> \o HttpPrefix }
Stems == { <<"d">>, <<"B", ";">> }
Suffixes == { <<>>, GzSuffix, <<".", "G", "Z">> }
Sources == {p \o m \o x : p \in Prefixes, m \in Stems, x \in Suffixes}

\* what a URL or a file of the model holds
Content == <<"A", ";">>

InitOpen ==
    /\ GenInit(Content, <<>>)
    /\ source \in Sources
    /\ isfile \in BOOLEAN
    /\ pc = "open_source"
    /\ origin = "unresolved"
    /\ stop_on_error = FALSE
    /\ commit_every = 1
    /\ conn = "open"
    /\ stream = "none"
    /\ stream_closes = 0
    /\ applied = 0
    /\ failed = 0
    /\ batch = 0
    /\ db = <<Ev("disable_fk", <<>>, TRUE), Ev("commit_disable", <<>>, TRUE)>>
    /\ err = "none"
    /\ reported = 0

NextOpen == OpenSource

SpecOpen == InitOpen /\ [][NextOpen]_vars

\* control is back with the caller
Ended == pc \in {"returned", "raised"}

-----------------------------------------------------------------------------
(* Where the characters of the input lie, read off the text alone.         *)

\* the whole input, every character with its tag
AllChars == Join(lines)

\* The positions of t (counted from 1) that lie inside a block comment,
\* markers included: a span runs from the first "/*" at or after offset i
\* to the first "*/" after its two characters, or to the end of the text.
RECURSIVE SpanScan(_, _)
SpanScan(t, i) ==
    LET start == Find(t, SlashStar, i)
        end == Find(t, StarSlash, start + 2)
    IN  IF start = -1 THEN {}
        ELSE IF end = -1 THEN (start + 1)..Len(t)
        ELSE ((start + 1)..(end + 2)) \cup SpanScan(t, end + 2)

\* the tags <<line, column>> of the characters inside block comments
CommentChars ==
    {<<AllChars[i].ln, AllChars[i].col>> : i \in SpanScan(Txt(AllChars), 0)}

\* what is left of line ln outside the block comments
Outside(ln) ==
    LET inside == CommentChars
    IN  SelectSeq(lines[ln], LAMBDA ch : <<ch.ln, ch.col>> \notin inside)

\* t opens with a line-comment marker
OpensWithMarker(t) ==
    \/ (Len(t) >= 2 /\ t[1] = "-" /\ t[2] = "-")
    \/ (Len(t) >= 1 /\ t[1] = "#")

\* line ln is a line comment: what it holds outside block comments begins,
\* once trimmed, with "--" or "#"
LineCommentLine(ln) == OpensWithMarker(Txt(Strip(Outside(ln))))

\* the characters emitted so far
EmittedChars ==
    UNION {{out[k][j] : j \in 1..Len(out[k])} : k \in 1..Len(out)}

-----------------------------------------------------------------------------
(* C1 .. C4: the tokenizer, checked under SpecTok.                         *)

\* C1: for every dump made of N well-formed statements, each terminated
\* by the delimiter active at that point, the tokenizer yields exactly N
\* statements, in order: the k-th one emitted is made of text of the k-th
\* statement of the dump, and is that statement when it holds no comment.
C1_StatementCount ==
    (gen = "done" /\ plan # <<>>) =>
        /\ Len(out) = Len(Statements(plan))
        /\ \A k \in 1..Len(out) :
              /\ k <= Len(Statements(plan))
              /\ \A j \in 1..Len(out[k]) :
                    out[k][j].ln \in LinesOf(plan, StatementUnits(plan)[k])
              /\ Find(Statements(plan)[k], SlashStar, 0) = -1
                    => Txt(out[k]) = Statements(plan)[k]

\* the lines of the five-line example and of the scenario
P3Lines == StreamOf(P3Text)
ScenarioLines == StreamOf(ScenarioText)

\* line ln as written is a DELIMITER directive: it holds no block comment
\* and, once trimmed, begins with DELIMITER and a space, in any letter case
WrittenDirective(ln) ==
    /\ Find(Txt(lines[ln]), SlashStar, 0) = -1
    /\ StartsWith(Upper(Txt(Strip(lines[ln]))), delim_token)

\* the delimiter such a line names: the trimmed rest of the line
WrittenDelimiter(ln) ==
    LET t == Strip(lines[ln])
    IN  Txt(Strip(SubSeq(t, Len(delim_token) + 1, Len(t))))

\* C2: the input A; / DELIMITER $$ / B$$ / DELIMITER ; / C; yields exactly
\* A, B, C; no character of a DELIMITER directive line (one that holds no
\* comment and is read outside a block comment) is ever part of an emitted
\* statement; once such a line has been read, the delimiter it names is
\* the active one, whatever the delimiter before it; and under
\* DELIMITER $$ a line ending in ";" does not end the statement, the line
\* ending in "$$" does.
C2_DelimiterSwitch ==
    /\ (gen = "done" /\ lines = P3Lines)
          => Collected = << <<"A">>, <<"B">>, <<"C">> >>
    /\ LET directives == {ln \in 1..pos : WrittenDirective(ln) /\ ~ibcAt[ln]}
       IN  \A ch \in EmittedChars : ch.ln \notin directives
    /\ (pos >= 1 /\ WrittenDirective(pos) /\ ~ibcAt[pos])
          => current_delim = WrittenDelimiter(pos)
    /\ (gen = "done"
          /\ plan = <<[kind |-> "delim", body |-> <<"$", "$">>],
                      [kind |-> "stmt", body |-> <<"S", ";", "\n", "E">>]>>)
          => Collected = << <<"S", ";", "\n", "E">> >>

\* C2's case: the five-line example has been tokenized to its end.
C2_Witness ==
    /\ lines = P3Lines /\ gen = "done" /\ Len(out) = 3
    /\ current_delim = Semicolon

ScenarioStatements ==
    << <<"I", "N", "S", "E", "R", "T", " ", "I", "N", "T", "O", " ", "t",
         " ", "V", "A", "L", "U", "E", "S", " ", "(", "1", ")">>,
       <<"C", "R", "E", "A", "T", "E", " ", "P", "R", "O", "C", "E", "D",
         "U", "R", "E", " ", "p", "(", ")", " ", "B", "E", "G", "I", "N",
         " ", "S", "E", "L", "E", "C", "T", " ", "1", ";", " ", "E", "N",
         "D">>,
       <<"I", "N", "S", "E", "R", "T", " ", "I", "N", "T", "O", " ", "t",
         " ", "V", "A", "L", "U", "E", "S", " ", "(", "2", ")">> >>

\* the statements of plan p that hold a ";" while another delimiter is
\* the active one
InnerSemicolon(p) ==
    {i \in 1..Len(p) : /\ p[i].kind = "stmt"
                       /\ ActiveDelim(p, i) # Semicolon
                       /\ Find(p[i].body, Semicolon, 0) # -1}

\* C3: the scenario dump tokenizes to exactly its 3 statements, the
\* procedure keeping its inner ";"; and in every dump built from
\* statements, one that holds a ";" while a custom delimiter is active is
\* emitted whole, as one statement.
C3_CustomDelimiter ==
    /\ (gen = "done" /\ lines = ScenarioLines)
          => Collected = ScenarioStatements
    /\ (gen = "done" /\ plan # <<>>)
          => \A i \in InnerSemicolon(plan) :
                \E k \in 1..Len(out) : Txt(out[k]) = plan[i].body

\* C3's case: the scenario has been tokenized to its end, and the second
\* statement emitted holds a ";".
C3_Witness ==
    /\ lines = ScenarioLines /\ gen = "done" /\ Len(out) = 3
    /\ Find(Txt(out[2]), Semicolon, 0) # -1

\* C4: no character of a line comment (a line whose text outside block
\* comments begins, once trimmed, with "--" or "#"), and no character
\* inside a /* ... */ span, is part of an emitted statement.
C4_CommentsStripped ==
    LET inside == CommentChars
    IN  \A ch \in EmittedChars :
            <<ch.ln, ch.col>> \notin inside /\ ~LineCommentLine(ch.ln)

-----------------------------------------------------------------------------
(* C5 .. C10: the driver, checked under Spec.                              *)

\* the requests of kind op the destination has received, in order
Requests(op) == SelectSeq(db, LAMBDA e : e.op = op)

\* the statements the destination has rejected, in order
Rejected == SelectSeq(db, LAMBDA e : e.op = "exec" /\ ~e.ok)

\* a commit of executed statements has failed
CommitFailed ==
    \E j \in 1..Len(db) : db[j].op \in {"commit", "final_commit"} /\ ~db[j].ok

\* the texts of the statements sent to the destination, in order
Attempted == [j \in 1..Len(Requests("exec")) |-> Requests("exec")[j].stmt]

\* the texts of the statements of the whole input, in order
Sequence == [k \in 1..Len(Tokenize(lines)) |-> Txt(Tokenize(lines)[k])]

\* C5: with stop_on_error false, no commit failure and a source that
\* delivers its S statements, of which the destination rejects K, the run
\* returns normally having sent all S statements, in order, and ends with
\* applied = S - K and failed = K.
C5_ContinueOnError ==
    (/\ Ended /\ ~stop_on_error /\ ~CommitFailed
     /\ stream = "closed" /\ gen # "error")
        => LET sequence == Sequence
           IN  /\ pc = "returned" /\ err = "none"
               /\ Attempted = sequence
               /\ applied = Len(sequence) - Len(Rejected)
               /\ failed = Len(Rejected)

\* C5's case: a run that continued past a rejected statement and returned.
C5_Witness ==
    /\ pc = "returned" /\ ~stop_on_error
    /\ Len(Sequence) = 3 /\ Len(Rejected) = 1 /\ applied = 2
    /\ ~Requests("exec")[2].ok

\* C6: with stop_on_error true, once the destination has rejected a
\* statement, that statement is the last one sent (the i-th when it is the
\* i-th of the sequence), the tokenizer has handed out i statements and is
\* not asked again, and the run ends by raising the statement's error.
C6_StopOnError ==
    (stop_on_error /\ Rejected # <<>>) =>
        LET i == Len(Requests("exec"))
            sequence == Sequence
        IN  /\ ~Requests("exec")[i].ok
            /\ \A j \in 1..(i - 1) : Requests("exec")[j].ok
            /\ i <= Len(sequence)
            /\ \A j \in 1..i : Attempted[j] = sequence[j]
            /\ Len(out) = i
            /\ gen \in {"running", "tail"}
            /\ pc \in {"cleanup", "raised"}
            /\ err = "StatementError"
            /\ reported = 0

\* C6's case: the second of three statements was rejected and the run has
\* raised.
C6_Witness ==
    /\ stop_on_error /\ pc = "raised" /\ err = "StatementError"
    /\ Len(Requests("exec")) = 2 /\ Len(Sequence) = 3

\* the largest member of a set of numbers
Last(S) == CHOOSE x \in S : \A y \in S : y <= x

\* the j-th request is a statement the destination accepted
Accepted(j) == db[j].op = "exec" /\ db[j].ok

\* the place of the last periodic commit before the j-th request, or 0
PreviousCommit(j) == Last({0} \cup {k \in 1..(j - 1) : db[k].op = "commit"})

\* the statements accepted after that commit and before the j-th request
AcceptedSince(j) ==
    Cardinality({k \in (PreviousCommit(j) + 1)..(j - 1) : Accepted(k)})

\* the place in the history where the statement loop ended
LoopEnd ==
    Min({Len(db) + 1}
        \cup {j \in 1..Len(db) : db[j].op \in {"final_commit", "enable_fk"}})

\* C7: with commit_every = M >= 1, a periodic commit comes right after an
\* accepted statement and exactly when M statements have been accepted
\* since the previous commit; a rejected statement is never followed by
\* one; and once the sequence is exhausted there is one final commit if
\* accepted statements are left uncommitted, none otherwise, and none
\* when the sequence was not exhausted.
C7_CommitBatching ==
    commit_every >= 1 =>
        /\ \A j \in 1..Len(db) :
              db[j].op = "commit" =>
                  /\ j > 1 /\ Accepted(j - 1)
                  /\ AcceptedSince(j) = commit_every
        /\ \A j \in 1..Len(db) :
              (Accepted(j) /\ AcceptedSince(j + 1) = commit_every)
                  => (j < Len(db) /\ db[j + 1].op = "commit")
        /\ (gen = "done" /\ pc \in {"cleanup", "report", "returned", "raised"})
              => Len(Requests("final_commit"))
                     = IF AcceptedSince(LoopEnd) > 0 THEN 1 ELSE 0
        /\ (gen # "done" \/ pc \in {"pull", "exec", "final"})
              => Requests("final_commit") = <<>>

\* C7's case: M = 2 and four statements, the second rejected: one periodic
\* commit after the third, one final commit for the fourth.
C7_Witness ==
    /\ commit_every = 2 /\ pc = "returned"
    /\ Len(Requests("exec")) = 4 /\ ~Requests("exec")[2].ok /\ applied = 3
    /\ Len(Requests("commit")) = 1 /\ Len(Requests("final_commit")) = 1

\* C8: whenever control is back with the caller after foreign-key checking
\* was disabled, the re-enabling statement has been sent, and its commit
\* too when the destination accepted it.
C8_ForeignKeysRestored ==
    (Ended /\ \E j \in 1..Len(db) : db[j].op = "disable_fk" /\ db[j].ok)
        => /\ Len(Requests("enable_fk")) = 1
           /\ Requests("enable_fk")[1].ok => Len(Requests("commit_enable")) = 1

\* C9: whenever control is back with the caller, the connection is not
\* left open, the stream is not left open, and a stream that was opened
\* has been closed exactly once.
C9_ResourcesReleased ==
    Ended => /\ conn # "open"
             /\ stream # "open"
             /\ stream = "closed" => stream_closes = 1
             /\ stream = "none" => stream_closes = 0

\* C10: whenever a run has ended with a loader error or a connection
\* error, no statement of the dump has been sent to the destination.
C10_NothingExecutedOnLoaderError ==
    (Ended /\ err \in {"SourceError", "ConnectionError"})
        => Requests("exec") = <<>>

-----------------------------------------------------------------------------
(* C11 .. C15: more of the driver, checked under Spec.                     *)

\* the places in the history of the commits of the statement loop that
\* failed
FailedCommits ==
    {j \in 1..Len(db) : db[j].op \in {"commit", "final_commit"} /\ ~db[j].ok}

\* C11: once a commit of the statement loop (periodic or final) has
\* failed, whatever stop_on_error is, it is the only one that failed, no
\* statement is executed after it, the run is on its way out with the
\* commit's error and without a summary, and failed counts the rejected
\* statements only.
C11_CommitFailureFatal ==
    \A j \in FailedCommits :
        /\ FailedCommits = {j}
        /\ \A k \in (j + 1)..Len(db) : db[k].op \notin {"exec", "commit",
                                                        "final_commit"}
        /\ pc \in {"cleanup", "raised"}
        /\ err = "CommitError"
        /\ reported = 0
        /\ failed = Len(Rejected)

\* C11's case: with stop_on_error false, a statement was rejected, the
\* next one accepted, its periodic commit failed, and the run has raised
\* with a third statement left unexecuted.
C11_Witness ==
    /\ ~stop_on_error /\ pc = "raised" /\ err = "CommitError"
    /\ Len(Requests("exec")) = 2 /\ failed = 1 /\ applied = 1
    /\ \E j \in FailedCommits : db[j].op = "commit"
    /\ Len(Sequence) = 3

\* C12: the statements sent to the destination are, in order and one for
\* one, the first ones the tokenizer has handed out; the tokenizer is never
\* more than one statement ahead, and is so only while that statement is
\* about to be executed; and whenever the driver is back at the tokenizer,
\* or past the loop, the last statement executed does not still owe its
\* periodic commit.
C12_InOrderOneInFlight ==
    LET n == Len(Requests("exec"))
    IN  /\ n <= Len(out) /\ Len(out) <= n + 1
        /\ \A k \in 1..n : Attempted[k] = Collected[k]
        /\ (Len(out) = n + 1) <=> (pc = "exec")
        /\ (pc \in {"pull", "exec", "final"} /\ db[Len(db)].op = "exec")
              => AcceptedSince(Len(db) + 1) < commit_every

\* C12's case: three statements, not all alike, executed to the end with a
\* commit after each.
C12_Witness ==
    /\ pc = "returned" /\ Len(Requests("exec")) = 3 /\ commit_every = 1
    /\ Attempted[1] # Attempted[2]
    /\ Len(Requests("commit")) = 3

\* the j-th request belongs to the statement loop
OfTheLoop(j) == db[j].op \in {"exec", "commit", "final_commit"}

\* C13: every statement of the dump is executed after the disabling
\* statement was accepted and its commit done, these two being the first
\* requests of the run; and after the re-enabling statement has been sent,
\* no statement of the dump is executed and no commit of the loop issued.
C13_ForeignKeyBracket ==
    /\ \A j \in 1..Len(db) :
          OfTheLoop(j) =>
              /\ j > 2
              /\ db[1].op = "disable_fk" /\ db[1].ok
              /\ db[2].op = "commit_disable" /\ db[2].ok
    /\ \A j \in 1..Len(db) :
          db[j].op = "enable_fk" =>
              \A k \in (j + 1)..Len(db) : ~OfTheLoop(k)
    /\ \A j \in 1..Len(db) :
          db[j].op \in {"disable_fk", "commit_disable"} => j <= 2

\* C13's case: a run that executed two statements between the disabling
\* and the re-enabling statement.
C13_Witness ==
    /\ Ended /\ Len(Requests("exec")) >= 2
    /\ db[1].op = "disable_fk"
    /\ db[Len(db) - 1].op = "enable_fk"
    /\ db[Len(db) - 2].op \in {"exec", "commit", "final_commit"}

\* C14: whenever control is back with the caller after a run that executed
\* a statement of the dump, the summary of applied and failed has been
\* reported exactly once, the run having completed or aborted.
C14_OutcomeReported ==
    (Ended /\ Requests("exec") # <<>>) => reported = 1

\* the re-enabling statement, or its commit, has failed
CleanupFailed ==
    \E j \in 1..Len(db) :
        db[j].op \in {"enable_fk", "commit_enable"} /\ ~db[j].ok

\* the error the run met before its cleanup, read off the history
PrimaryError ==
    IF gen = "error" THEN "SourceError"
    ELSE IF FailedCommits # {} THEN "CommitError"
    ELSE IF stop_on_error /\ Rejected # <<>> THEN "StatementError"
    ELSE "none"

\* C15: once the re-enabling statement or its commit has failed, the
\* connection and the stream are closed, the stream exactly once; the run
\* ends as it would have without that failure: with its summary when
\* nothing else went wrong, with its primary error otherwise.
C15_CleanupBestEffort ==
    CleanupFailed =>
        /\ conn = "closed" /\ stream = "closed" /\ stream_closes = 1
        /\ err = PrimaryError
        /\ pc \in (IF PrimaryError = "none" THEN {"report", "returned"}
                   ELSE {"raised"})
        /\ pc = "returned" => reported = 1

\* C15's case: a run aborted by a rejected statement, whose re-enabling
\* statement then failed as well.
C15_Witness ==
    /\ pc = "raised" /\ err = "StatementError" /\ Len(Requests("exec")) = 2
    /\ Requests("enable_fk") # <<>> /\ ~Requests("enable_fk")[1].ok
    /\ conn = "closed"

-----------------------------------------------------------------------------
(* C16 .. C20: more of the tokenizer and the loader.                       *)

\* the last line of the input, trimmed
LastLine == Strip(lines[Len(lines)])

\* the input ends in the text of a statement that lacks its delimiter: its
\* last line, read outside a block comment, holds no comment, is neither
\* blank nor a line comment nor a directive, and does not end with the
\* active delimiter
EndsUnterminated ==
    /\ lines # <<>>
    /\ ~ibcAt[Len(lines)]
    /\ Find(Txt(lines[Len(lines)]), SlashStar, 0) = -1
    /\ LastLine # <<>>
    /\ ~OpensWithMarker(Txt(LastLine))
    /\ ~WrittenDirective(Len(lines))
    /\ ~EndsWith(Txt(LastLine), current_delim)

\* C16 (checked under SpecTok): the step that meets the end of the stream
\* emits the trimmed pending buffer as one more statement when it is not
\* empty, and nothing otherwise; nothing is emitted after that step; so
\* an input that ends in a statement without its delimiter has that
\* statement's last line at the end of its last statement, and
\* "A;" / "B" yields A, B.
C16_TailFlush ==
    /\ [][(gen = "running" /\ gen' # "running") =>
             LET tail == Strip(Join(buf))
             IN  out' = IF tail # <<>> THEN Append(out, tail) ELSE out]_vars
    /\ [][gen # "running" => out' = out]_vars
    /\ []((gen = "done" /\ EndsUnterminated) =>
             /\ out # <<>>
             /\ LET last == out[Len(out)]
                IN  /\ Len(last) >= Len(LastLine)
                    /\ SubSeq(last, Len(last) - Len(LastLine) + 1, Len(last))
                          = LastLine)
    /\ []((gen = "done" /\ Txt(Join(lines)) = <<"A", ";", "\n", "B">>)
             => Collected = << <<"A">>, <<"B">> >>)

\* C16's case: "A;" / "B" has been read to its end, and B, which has no
\* delimiter, came out last.
C16_Witness ==
    /\ gen = "done" /\ Txt(Join(lines)) = <<"A", ";", "\n", "B">>
    /\ Len(out) = 2 /\ Txt(out[2]) = <<"B">> /\ buf # <<>>

\* a character str.strip() would remove
Blank(ch) == ch.c \in {" ", "\t", "\n", "\r"}

\* C17 (checked under SpecTok): every statement emitted so far, by a
\* delimiter match, by the flush of a DELIMITER directive or by the flush
\* at the end of the stream, is non-empty and neither begins nor ends
\* with whitespace.
C17_StatementsTrimmed ==
    \A k \in 1..Len(out) :
        /\ out[k] # <<>>
        /\ ~Blank(out[k][1])
        /\ ~Blank(out[k][Len(out[k])])

\* C17's case: "B" / "DELIMITER $$" / "C; D$$" / end: B came out by the
\* flush of the directive, without its line end, and "C; D" by a match.
C17_Witness ==
    /\ gen = "done" /\ current_delim = <<"$", "$">>
    /\ Collected = << <<"B">>, <<"C", ";", " ", "D">> >>
    /\ Len(lines[1]) = 2

\* what reading the next line appends to the buffer (dump.py:114): the
\* line as an empty buffer keeps it when no delimiter can match
AppendedNext ==
    LineStep(lines[pos + 1], <<>>, <<>>, in_block_comment).buf

\* the step from this state reads a line
ReadsLine == pos' = pos + 1

\* the step empties a buffer that held something, were it only the line
\* the step itself appended
ClearsBuffer ==
    /\ ReadsLine
    /\ buf' = <<>>
    /\ (buf # <<>> \/ AppendedNext # <<>>)

\* the step reads, with an empty buffer, a line that holds the active
\* delimiter and nothing else
ReadsBareDelimiter ==
    /\ ReadsLine
    /\ buf = <<>>
    /\ AppendedNext # <<>>
    /\ Txt(Strip(Join(AppendedNext))) = current_delim

\* C18 as stated (checked under SpecTok): a step that reads a line empties
\* the pending buffer if and only if it emits a statement.
C18_ClearedIffEmitted ==
    [][ReadsLine => (ClearsBuffer <=> out' # out)]_vars

\* C18, amended: a step that reads a line and emits a statement emits one
\* and leaves the buffer empty; a step that emits nothing keeps what the
\* buffer held, adding at most the line it read, so that text accumulated
\* by earlier steps is never cleared without an emission; the one buffer
\* cleared without an emission is that of a line holding the active
\* delimiter alone, read with an empty buffer.
C18_ClearedOnlyByEmission ==
    /\ [][(ReadsLine /\ out' # out) =>
             /\ Len(out') = Len(out) + 1
             /\ buf' = <<>>
             /\ ClearsBuffer]_vars
    /\ [][(ReadsLine /\ out' = out) =>
             \/ buf' = buf /\ AppendedNext = <<>>
             \/ buf' = buf \o AppendedNext
             \/ buf' = buf /\ ReadsBareDelimiter]_vars
    /\ [][(ClearsBuffer /\ out' = out) => ReadsBareDelimiter]_vars

\* C18's case: in ";" / "A;" the first line was cleared from the buffer
\* without an emission, and the second came out as a statement.
C18_Witness ==
    /\ Txt(Join(lines)) = EmptyStatementText
    /\ gen = "done" /\ Collected = << <<"A">> >> /\ buf = <<>>

\* two texts that differ at most in the case of the letters of "https"
SameButCase(a, b) ==
    /\ Len(a) = Len(b)
    /\ \A i \in 1..Len(a) :
          \/ a[i] = b[i]
          \/ <<a[i], b[i]>> \in {<<"H", "h">>, <<"T", "t">>, <<"P", "p">>,
                                 <<"S", "s">>}

\* the source begins with t as written; with t in any letter case
BeginsWith(t) == Len(source) >= Len(t) /\ SubSeq(source, 1, Len(t)) = t
BeginsAnyCase(t) ==
    Len(source) >= Len(t) /\ SameButCase(SubSeq(source, 1, Len(t)), t)

\* the loader has decided; the content of a URL or file is untouched
Opened == pc # "open_source"

\* the source was taken for a URL: fetched, or failed with the fetch's
\* error, and never read as SQL text
TakenAsUrl ==
    /\ origin \in {"url", "url_gz"}
    /\ lines = StreamOf(Content)
    /\ \/ pc = "pull" /\ stream = "open" /\ err = "none"
       \/ pc = "raised" /\ stream = "none" /\ err = "SourceError"

\* the source was taken for a local file
TakenAsFile ==
    /\ origin \in {"file", "file_gz"}
    /\ lines = StreamOf(Content)

\* the source was taken for SQL text, and nothing was raised
TakenAsInline ==
    /\ origin = "inline"
    /\ lines = StreamOf(source)
    /\ pc = "pull" /\ stream = "open" /\ err = "none"

NothingButComments(ln) ==
    \/ Strip(lines[ln]) = <<>>
    \/ OpensWithMarker(Txt(Strip(lines[ln])))
    \/ LET inside == CommentChars
       IN  \A i \in 1..Len(lines[ln]) :
              Blank(lines[ln][i]) \/ <<ln, i>> \in inside

\* C20 (checked under SpecTok): an input whose lines hold nothing but
\* blanks, line comments and block comments, closed or not, yields no
\* statement.
C20_CommentsOnlyYieldNothing ==
    (gen = "done" /\ \A ln \in 1..Len(lines) : NothingButComments(ln))
        => out = <<>>

-----------------------------------------------------------------------------
(* C21 .. C25: the tokenizer line by line, checked under SpecTok.          *)

\* What is left of the next line once block comments are gone: `whole`
\* tells whether the line goes on to the checks of dump.py:89-124 (it does
\* not when it lies inside a block comment or opens one), `opens` whether
\* it holds a "/*" that is not closed on the line, `text` is what is left.
Remainder ==
    LET raw == lines[pos + 1]
        close == Find(Txt(raw), StarSlash, 0)
        rest == IF in_block_comment
                THEN SubSeq(raw, close + 3, Len(raw)) ELSE raw
        cut == StripInline(rest)
    IN  IF in_block_comment /\ close = -1
        THEN [whole |-> FALSE, opens |-> FALSE, text |-> <<>>]
        ELSE [whole |-> ~cut.in_block_comment,
              opens |-> cut.in_block_comment, text |-> cut.line]

\* t begins with DELIMITER and a space, in any letter case
DirectiveText(t) ==
    /\ Len(t) >= Len(delim_token)
    /\ Upper(SubSeq(t, 1, Len(delim_token))) = delim_token

\* the next line, comments stripped and trimmed, is a DELIMITER directive
NextIsDirective ==
    Remainder.whole /\ DirectiveText(Txt(Strip(Remainder.text)))

\* the delimiter the next line names: the trimmed rest of it
NextDelimiter ==
    LET t == Strip(Remainder.text)
    IN  Txt(Strip(SubSeq(t, Len(delim_token) + 1, Len(t))))

\* C21: a step that reads a line whose trimmed, comment-stripped text
\* begins with DELIMITER and a space, in any letter case, emits the pending
\* buffer, trimmed, as one statement when the buffer is not empty, and
\* nothing otherwise; it leaves the buffer empty, so the directive line is
\* not accumulated, and the active delimiter is the trimmed rest of the
\* line.
C21_DirectiveFlush ==
    [][(ReadsLine /\ NextIsDirective) =>
          /\ out' = IF buf # <<>> THEN Append(out, Strip(Join(buf))) ELSE out
          /\ buf' = <<>>
          /\ current_delim' = NextDelimiter
          /\ in_block_comment' = FALSE]_vars

\* C21's case: "B" was pending without its delimiter when "DELIMITER $$"
\* was read; B came out, the buffer is empty and $$ is the delimiter.
C21_Witness ==
    /\ pos = 2 /\ gen = "running"
    /\ Txt(lines[1]) = <<"B", "\n">>
    /\ Upper(Txt(lines[2])) = delim_token \o <<"$", "$", "\n">>
    /\ Collected = << <<"B">> >> /\ buf = <<>>
    /\ current_delim = <<"$", "$">>

\* the next line is accumulated: it goes on to the checks, and what is
\* left of it is neither blank, nor a directive, nor a line comment
NextIsAccumulated ==
    /\ Remainder.whole
    /\ Strip(Remainder.text) # <<>>
    /\ ~DirectiveText(Txt(Strip(Remainder.text)))
    /\ ~OpensWithMarker(Txt(Strip(Remainder.text)))

\* the buffer with the next line appended, right-trimmed
Pending == RStrip(Join(buf) \o Remainder.text)

\* s ends with the active delimiter
EndsWithDelimiter(s) ==
    /\ Len(s) >= Len(current_delim)
    /\ Txt(SubSeq(s, Len(s) - Len(current_delim) + 1, Len(s))) = current_delim

\* s without its last Len(current_delim) characters, trimmed
WithoutDelimiter(s) == Strip(SubSeq(s, 1, Len(s) - Len(current_delim)))

\* C22: a step that accumulates a line emits a statement exactly when the
\* whole buffer, right-trimmed, ends with the active delimiter; the
\* statement is then that buffer less this one trailing occurrence,
\* trimmed, and the buffer is cleared; otherwise nothing is emitted and
\* the line joins the buffer, wherever else the delimiter occurs in it.
\* So "A; B;" / "C;;" yields "A; B" and "C;".
C22_SuffixMatch ==
    /\ [][(ReadsLine /\ NextIsAccumulated) =>
             IF EndsWithDelimiter(Pending)
             THEN /\ buf' = <<>>
                  /\ out' = IF WithoutDelimiter(Pending) # <<>>
                            THEN Append(out, WithoutDelimiter(Pending))
                            ELSE out
             ELSE /\ buf' = Append(buf, Remainder.text)
                  /\ out' = out]_vars
    /\ []((gen = "done" /\ Txt(Join(lines)) = TwoOnOneLineText)
             => Collected = << <<"A", ";", " ", "B">>, <<"C", ";">> >>)

\* C22's case: "A; B;" / "C;;" was read to its end; the first statement
\* holds the inner ";" and the second kept one of its two.
C22_Witness ==
    /\ gen = "done" /\ Txt(Join(lines)) = TwoOnOneLineText
    /\ Len(out) = 2 /\ Find(Txt(out[1]), Semicolon, 0) = 1
    /\ Txt(out[2]) = <<"C", ";">>

\* what the checks of dump.py:74-124 make of a line read outside a block
\* comment, in the current state
Outcome(line) ==
    LET cut == StripInline(line)
    IN  IF cut.in_block_comment THEN Skip(current_delim, buf, TRUE)
        ELSE Classify(cut.line, current_delim, buf)

\* the next line holds "*/"; what follows the first one
NextCloses == Find(Txt(lines[pos + 1]), StarSlash, 0) # -1
AfterClose ==
    SubSeq(lines[pos + 1], Find(Txt(lines[pos + 1]), StarSlash, 0) + 3,
           Len(lines[pos + 1]))

\* C23: inside a block comment, a step that reads a line without "*/"
\* emits nothing and leaves the delimiter, the buffer and the comment
\* state as they were, whatever the line looks like; a step that reads a
\* line with "*/" does what a step outside a block comment would do with
\* what follows the first "*/".
C23_InsideBlockComment ==
    /\ [][(ReadsLine /\ in_block_comment /\ ~NextCloses) =>
             /\ out' = out /\ buf' = buf
             /\ current_delim' = current_delim
             /\ in_block_comment' = TRUE]_vars
    /\ [][(ReadsLine /\ in_block_comment /\ NextCloses) =>
             LET r == Outcome(AfterClose)
             IN  /\ out' = out \o r.yielded
                 /\ buf' = r.buf
                 /\ current_delim' = r.current_delim
                 /\ in_block_comment' = r.in_block_comment]_vars

\* C23's case: after "H /* c", the directive "DELIMITER $$" was read
\* inside the comment and changed nothing; "c */ I;" then closed the
\* comment and I came out, ended by ";".
C23_Witness ==
    /\ gen = "done" /\ Len(lines) = 3
    /\ Txt(lines[1]) = <<"H", " ", "/", "*", " ", "c", "\n">>
    /\ DirectiveText(Txt(lines[2]))
    /\ ibcAt[2] /\ ibcAt[3] /\ ~in_block_comment
    /\ Collected = << <<"I">> >> /\ current_delim = Semicolon

\* t holds, from offset i on, a "/*" that no "*/" closes
RECURSIVE Unterminated(_, _)
Unterminated(t, i) ==
    LET start == Find(t, SlashStar, i)
        end == Find(t, StarSlash, start + 2)
    IN  start # -1 /\ (end = -1 \/ Unterminated(t, end + 2))

\* line ln, read with comment state ibc, opens a block comment that it
\* does not close
Opens(ln, ibc) ==
    LET t == Txt(lines[ln])
        close == Find(t, StarSlash, 0)
    IN  IF ibc THEN close # -1 /\ Unterminated(t, close + 2)
        ELSE Unterminated(t, 0)

NextIsLineComment ==
    Remainder.whole /\ OpensWithMarker(Txt(Strip(Remainder.text)))

\* t holds a line-comment marker
HoldsMarker(t) ==
    \E i \in 1..Len(t) : t[i] = "#" \/ (i < Len(t) /\ t[i] = "-" /\ t[i + 1] = "-")

-----------------------------------------------------------------------------
(* C26: the final commit, checked under Spec.                              *)

\* the place in the history of the last commit of the statement loop that
\* succeeded, or 0
LastLoopCommit ==
    Last({0} \cup {k \in 1..Len(db) :
                      db[k].op \in {"commit", "final_commit"} /\ db[k].ok})

\* the statements the destination accepted that no commit of the loop
\* has covered
Uncommitted ==
    Cardinality({k \in (LastLoopCommit + 1)..Len(db) : Accepted(k)})

\* C26: once the statement sequence is exhausted and the loop and its
\* final commit have met no fatal error, whether statements were rejected
\* or not, every statement the destination accepted is covered by a commit
\* of the loop or by the final commit: none is left uncommitted when the
\* cleanup begins.
C26_FinalCommitCovers ==
    (gen = "done" /\ err = "none" /\ pc \in {"cleanup", "report", "returned"})
        => Uncommitted = 0

\* C26's case: with commit_every = 2, the first statement was rejected,
\* the second accepted, the sequence ended and the final commit was made;
\* the cleanup is about to begin.
C26_Witness ==
    /\ pc = "cleanup" /\ err = "none" /\ gen = "done" /\ commit_every = 2
    /\ failed = 1 /\ applied = 1 /\ ~Requests("exec")[1].ok
    /\ Requests("commit") = <<>> /\ Len(Requests("final_commit")) = 1

-----------------------------------------------------------------------------
(* C27: the active delimiter, checked under SpecTok.                       *)

\* C27: the active delimiter is never the empty string; and a line that
\* holds the word DELIMITER and nothing after it is no directive: it is
\* statement text, and the delimiter stays what it was.
C27_DelimiterNeverEmpty ==
    /\ current_delim # <<>>
    /\ (gen = "done" /\ Txt(Join(lines)) = BareWordText)
          => /\ current_delim = Semicolon
             /\ Collected = << <<"D", "E", "L", "I", "M", "I", "T", "E", "R",
                                 " ", "\n", "A">> >>

\* C27's case: "DELIMITER " / "A;" was read to its end and came out as
\* one statement, ended by ";".
C27_Witness ==
    /\ gen = "done" /\ Txt(Join(lines)) = BareWordText
    /\ Len(out) = 1 /\ Len(out[1]) = 12 /\ current_delim = <<";">>

-----------------------------------------------------------------------------
(* C28: the counters of the statement loop, checked under Spec.            *)

\* the driver stands between two iterations of the statement loop: about
\* to ask for a statement, holding one it has not yet executed, or just
\* past the loop
AtIterationBoundary == pc \in {"pull", "exec", "final"}

\* C28: with commit_every >= 1, between two iterations of the statement
\* loop applied + failed is the number of statements executed so far, and
\* 0 <= batch < commit_every and batch <= applied; and the number printed
\* with a rejected statement is the place of that statement, counted
\* from 1, among the statements the tokenizer handed out.
C28_LoopCounters ==
    commit_every >= 1 =>
        /\ AtIterationBoundary =>
              /\ applied + failed = Len(Requests("exec"))
              /\ 0 <= batch /\ batch < commit_every /\ batch <= applied
        /\ \A j \in 1..Len(Requests("exec")) :
              ~Requests("exec")[j].ok =>
                  /\ Requests("exec")[j].at = j
                  /\ j <= Len(out)
                  /\ Requests("exec")[j].stmt = Txt(out[j])

\* C28's case: with commit_every = 2 the first statement was accepted and
\* the second rejected and reported as statement 2; the loop is about to
\* ask for the third with one statement uncommitted.
C28_Witness ==
    /\ pc = "pull" /\ commit_every = 2 /\ Len(Requests("exec")) = 2
    /\ Requests("exec")[1].ok /\ ~Requests("exec")[2].ok
    /\ Requests("exec")[2].at = 2
    /\ applied = 1 /\ failed = 1 /\ batch = 1

-----------------------------------------------------------------------------
(* C29: an aborted run, checked under Spec.                                *)

\* the j-th request is a statement the destination accepted and a later
\* commit that succeeded has made durable, no rollback standing between
Durable(j) ==
    /\ Accepted(j)
    /\ \E k \in (j + 1)..Len(db) :
          /\ db[k].op \in {"commit", "final_commit", "commit_enable"}
          /\ db[k].ok
          /\ \A m \in (j + 1)..(k - 1) : db[m].op # "rollback"

\* the place in the history of the last statement executed
LastExec == Last({0} \cup {j \in 1..Len(db) : db[j].op = "exec"})

\* C29: when a run with stop_on_error was aborted by a rejected statement
\* and control is back with the caller, all that the destination was
\* asked after that statement is the re-enabling statement and, when it
\* was accepted, one commit: no rollback; and when that commit succeeded,
\* every statement accepted before the abort is durable, those accepted
\* since the last periodic commit included, the statement's error being
\* raised all the same.
C29_AbortKeepsApplied ==
    (Ended /\ stop_on_error /\ Rejected # <<>>) =>
        /\ \A k \in (LastExec + 1)..Len(db) :
              db[k].op \in {"enable_fk", "commit_enable"}
        /\ \A k \in 1..Len(db) : db[k].op # "rollback"
        /\ Len(Requests("enable_fk")) = 1
        /\ Requests("enable_fk")[1].ok =>
              /\ db[Len(db)].op = "commit_enable"
              /\ db[Len(db)].ok =>
                    \A j \in 1..Len(db) : Accepted(j) => Durable(j)
        /\ pc = "raised" /\ err = "StatementError"

\* C29's case: with commit_every = 2, two statements were accepted and
\* committed, a third accepted, the fourth rejected; the cleanup went
\* through, and its commit made the third durable before the error was
\* raised.
C29_Witness ==
    /\ pc = "raised" /\ stop_on_error /\ commit_every = 2
    /\ Len(Requests("exec")) = 4 /\ applied = 3 /\ batch = 1
    /\ Len(Requests("commit")) = 1
    /\ db[Len(db)].op = "commit_enable" /\ db[Len(db)].ok
    /\ Durable(LastExec - 1)

-----------------------------------------------------------------------------
(* C30: the pending buffer, checked under SpecTok.                         *)

\* the step flushes the buffer: it reads a DELIMITER directive, or it
\* meets the end of the stream
Flushes ==
    \/ ReadsLine /\ NextIsDirective
    \/ gen = "running" /\ gen' # "running"

\* C30: whenever the tokenizer stands between two lines, a pending buffer
\* that is not empty holds a character that is not white space and,
\* right-trimmed, does not end with the active delimiter; so a step that
\* flushes such a buffer, at a DELIMITER directive or at the end of the
\* stream, emits one statement, and that statement does not end with the
\* delimiter that was active before the step.
C30_PendingBuffer ==
    /\ [](buf # <<>> =>
             /\ Strip(Join(buf)) # <<>>
             /\ ~EndsWithDelimiter(RStrip(Join(buf))))
    /\ [][(Flushes /\ buf # <<>>) =>
             /\ Len(out') = Len(out) + 1
             /\ out'[Len(out')] # <<>>
             /\ ~EndsWithDelimiter(out'[Len(out')])]_vars

\* C30's case: "B" / "DELIMITER $$" / "A;" was read to its end: B was
\* flushed by the directive, and "A;", which does not end with $$, by the
\* end of the stream.
C30_Witness ==
    /\ gen = "done" /\ current_delim = <<"$", "$">> /\ buf # <<>>
    /\ Collected = << <<"B">>, <<"A", ";">> >>

=============================================================================
